---- MODULE Spec2Model ----
(***************************************************************************)
(* PostPilot test-flow engine: the step executor (executeStep), the flow   *)
(* runner (runTestFlow) and the pieces of the browser, config and db       *)
(* modules they call.                                                      *)
(*                                                                         *)
(* Representation.  A JavaScript string is a sequence of tokens: text the  *)
(* user supplies is a sequence of one-character strings, a literal         *)
(* fragment of a template string is one token.  A JavaScript object with   *)
(* optional fields is a function whose DOMAIN is the set of fields that    *)
(* are not undefined.                                                      *)
(***************************************************************************)
EXTENDS Integers, Sequences, FiniteSets, TLC

VARIABLES
    opts,            \* RunTestOptions given to runTestFlow
    disk,            \* what the file at opts.flowPath holds
    flow,            \* the loaded TestFlow (runner.ts `flow`)
    pc,              \* position of the runTestFlow invocation
    i,               \* loop index of the step loop (1-based)
    stepResults,     \* runner.ts `stepResults`
    passed,          \* runner.ts `passed`
    failed,          \* runner.ts `failed`
    pending,         \* exception travelling through the finally block
    browserInstance, \* browser.ts module-level `browserInstance` (0 = null)
    launched,        \* number of browsers puppeteer.launch has created
    openBrowsers,    \* ids of the browsers that are open
    browser,         \* runner.ts `browser` (0 = not yet assigned)
    page,            \* runner.ts `page`: "none", "open" or "closed"
    stepLog,         \* history: one entry per call of executeStep
    db,              \* rows of the test_runs table
    out,             \* what the reporter has printed
    results,         \* runner.ts `results` once computed
    outcome,         \* how the runTestFlow promise settled
    now,             \* the wall clock, Date.now()
    startTime,       \* runner.ts `startTime`
    baseUrl,         \* runner.ts `baseUrl`
    clockAt,         \* history: the clock when launchBrowser was called,
                     \* when the page was acquired, when the browser closed
    other,           \* a second invocation of runTestFlow in the same process
    exitCode,        \* the code the `test run` command exited with, or -1
    multi            \* runMultipleFlows: its flow paths, position, results
                     \* and totals

vars == <<opts, disk, flow, pc, i, stepResults, passed, failed, pending,
          browserInstance, launched, openBrowsers, browser, page, stepLog,
          db, out, results, outcome, now, startTime, baseUrl, clockAt,
          other, exitCode, multi>>

\* What belongs to the callers of runTestFlow
callers == <<other, exitCode, multi>>

----------------------------------------------------------------------------
(* JavaScript helpers *)

\* obj.f !== undefined
Has(obj, f) == f \in DOMAIN obj

Min(a, b) == IF a < b THEN a ELSE b

Quote == "\""

UpperChars == <<"A","B","C","D","E","F","G","H","I","J","K","L","M",
                "N","O","P","Q","R","S","T","U","V","W","X","Y","Z">>
LowerChars == <<"a","b","c","d","e","f","g","h","i","j","k","l","m",
                "n","o","p","q","r","s","t","u","v","w","x","y","z">>

\* String.prototype.toLowerCase
ToLowerCaseIdentity(s) == s
ToLowerCase(s) ==
    [k \in 1..Len(s) |->
        IF \E u \in 1..Len(UpperChars) : UpperChars[u] = s[k]
        THEN LowerChars[CHOOSE u \in 1..Len(UpperChars) : UpperChars[u] = s[k]]
        ELSE s[k]]

\* String.prototype.includes
Includes(s, sub) ==
    \E k \in 0..(Len(s) - Len(sub)) : SubSeq(s, k + 1, k + Len(sub)) = sub

\* String.prototype.slice(from, to), 0-based, to exclusive
Slice(s, from, to) == SubSeq(s, from + 1, Min(to, Len(s)))

\* String.prototype.slice(from)
SliceFrom(s, from) == SubSeq(s, from + 1, Len(s))

\* String.prototype.startsWith
StartsWith(s, prefix) ==
    Len(s) >= Len(prefix) /\ SubSeq(s, 1, Len(prefix)) = prefix

\* String(error) for an Error object: "<name>: <message>"
StringOfError(e) == <<e.name, ": ", e.message>>

----------------------------------------------------------------------------
(* TestStep (twitter.ts 252-269) *)

FieldOrder == <<"goto", "click", "type", "text", "waitFor", "screenshot",
                "verify", "contains", "wait", "scroll", "hover", "select",
                "value", "press", "evaluate">>

Fields == {FieldOrder[k] : k \in 1..Len(FieldOrder)}

NumberFields == {"wait"}

\* The value each field carries when present.
FieldValue ==
    [goto |-> <<"/", "a">>, click |-> <<"#", "b">>, type |-> <<"#", "i">>,
     text |-> <<"h", "i">>, waitFor |-> <<"#", "w">>, screenshot |-> <<"s">>,
     verify |-> <<"h", "1">>, contains |-> <<"O", "k">>, wait |-> 0,
     scroll |-> <<"#", "s">>, hover |-> <<"#", "h">>, select |-> <<"#", "o">>,
     value |-> <<"v">>, press |-> <<"Enter">>, evaluate |-> <<"1">>]

StepWith(fs) == [f \in fs |-> FieldValue[f]]

\* JSON.stringify(step), fields in declaration order
RECURSIVE JSONFields(_, _, _)
JSONFields(step, k, first) ==
    IF k > Len(FieldOrder) THEN <<>>
    ELSE LET f == FieldOrder[k] IN
         IF Has(step, f)
         THEN (IF first THEN <<>> ELSE <<",">>) \o <<Quote, f, Quote, ":">> \o
              (IF f \in NumberFields THEN <<ToString(step[f])>>
               ELSE <<Quote>> \o step[f] \o <<Quote>>) \o
              JSONFields(step, k + 1, FALSE)
         ELSE JSONFields(step, k + 1, first)

JSONStringify(step) == <<"{">> \o JSONFields(step, 1, TRUE) \o <<"}">>

----------------------------------------------------------------------------
(* The page-automation driver as executeStep sees it.  A call is a record  *)
(* of its name and of the arm of executeStep that issued it; `driver` is   *)
(* FALSE for a timer (sleep, randomDelay), which cannot fail.  The         *)
(* driver's behaviour during one step is `drv`: failAt is the position of  *)
(* the call that raises (0: none does), exc the exception it raises, text  *)
(* the textContent page.$eval reads.                                       *)

DriverCall(name, arm) == [call |-> name, arm |-> arm, driver |-> TRUE]
TimerCall(name, arm) == [call |-> name, arm |-> arm, driver |-> FALSE]

TimeoutError == [name |-> "TimeoutError", message |-> "Waiting for selector failed"]
ProtocolError == [name |-> "Error", message |-> "Protocol error: Target closed"]
Exceptions == {TimeoutError, ProtocolError}

\* A text of 101 characters, the last of which differs from the others
LongText == [k \in 1..101 |-> IF k = 101 THEN "Z" ELSE "x"]

ElementTexts == {<<"o", "k", "!">>, <<"N", "o">>, <<>>, LongText}

\* browser.ts humanType (71-78); its waitForSelector is given no options.
humanType(selector, text, arm) ==
    <<[selector |-> selector] @@ DriverCall("page.waitForSelector", arm),
      [selector |-> selector] @@ DriverCall("page.click", arm)>>
    \o [k \in 1..Len(text) |->
            [selector |-> selector] @@ DriverCall("page.type", arm)]

\* browser.ts scrollToElement (123-132); its waitForSelector is given no
\* options.
scrollToElement(selector, arm) ==
    <<[selector |-> selector] @@ DriverCall("page.waitForSelector", arm),
      [selector |-> selector] @@ DriverCall("page.evaluate", arm),
      TimerCall("sleep", arm)>>

\* browser.ts takeScreenshot: the calls, and the path it returns
takeScreenshotCalls(arm) == <<DriverCall("page.screenshot", arm)>>
takeScreenshot(name, dir) == dir \o <<"/">> \o name \o <<"-", "<timestamp>", ".png">>

ScreenshotDir == <<".", "/", "screenshots">>

----------------------------------------------------------------------------
(* executeStep (twitter.ts 282-404) *)

\* The arm of the if / else-if chain a step takes (twitter.ts 297-396).
ArmPressFirst(step) ==
    IF Has(step, "press") THEN "press"
    ELSE IF Has(step, "goto") THEN "goto"
    ELSE IF Has(step, "click") THEN "click"
    ELSE IF Has(step, "type") /\ Has(step, "text") THEN "type"
    ELSE IF Has(step, "waitFor") THEN "waitFor"
    ELSE IF Has(step, "screenshot") THEN "screenshot"
    ELSE IF Has(step, "verify") /\ Has(step, "contains") THEN "verify"
    ELSE IF Has(step, "wait") THEN "wait"
    ELSE IF Has(step, "scroll") THEN "scroll"
    ELSE IF Has(step, "hover") THEN "hover"
    ELSE IF Has(step, "select") /\ Has(step, "value") THEN "select"
    ELSE IF Has(step, "evaluate") THEN "evaluate"
    ELSE "unknown"
Arm(step) ==
    IF Has(step, "goto") THEN "goto"
    ELSE IF Has(step, "click") THEN "click"
    ELSE IF Has(step, "type") /\ Has(step, "text") THEN "type"
    ELSE IF Has(step, "waitFor") THEN "waitFor"
    ELSE IF Has(step, "screenshot") THEN "screenshot"
    ELSE IF Has(step, "verify") /\ Has(step, "contains") THEN "verify"
    ELSE IF Has(step, "wait") THEN "wait"
    ELSE IF Has(step, "scroll") THEN "scroll"
    ELSE IF Has(step, "hover") THEN "hover"
    ELSE IF Has(step, "select") /\ Has(step, "value") THEN "select"
    ELSE IF Has(step, "press") THEN "press"
    ELSE IF Has(step, "evaluate") THEN "evaluate"
    ELSE "unknown"

\* Default timeouts of the waits (twitter.ts 299, 327, 306)
GotoTimeout == 30000
WaitForTimeout == 30000
SelectorTimeout == 10000

\* step.timeout || fallback: an absent timeout and 0 are both falsy.
TimeoutOr(step, fallback) ==
    IF Has(step, "timeout") /\ step.timeout # 0 THEN step.timeout ELSE fallback

\* twitter.ts 298: the URL page.goto is given
GotoUrl(target, base) ==
    IF StartsWith(target, <<"h", "t", "t", "p">>) THEN target ELSE base \o target

\* resolveSelector (twitter.ts 409-423)
resolveSelectorBare(selector) ==
    IF StartsWith(selector, <<"t", "e", "x", "t", "=">>)
    THEN SliceFrom(selector, 5)
    ELSE selector
resolveSelector(selector) ==
    IF StartsWith(selector, <<"t", "e", "x", "t", "=">>)
    THEN <<"x", "p", "a", "t", "h", "=", "/", "/", "*", "[", "c", "o", "n",
           "t", "a", "i", "n", "s", "(", "t", "e", "x", "t", "(", ")", ",",
           Quote>> \o SliceFrom(selector, 5) \o <<Quote, ")", "]">>
    ELSE IF StartsWith(selector, <<"x", "p", "a", "t", "h", "=">>)
    THEN selector
    ELSE selector

\* The calls an arm makes when none of them raises, in order, each with
\* the selector or URL and the timeout it is given.
ArmCalls(step, arm, base) ==
    LET Wait(selector, fallback) ==
            [selector |-> selector, timeout |-> TimeoutOr(step, fallback)]
            @@ DriverCall("page.waitForSelector", arm)
        On(name, selector) == [selector |-> selector] @@ DriverCall(name, arm)
    IN
    CASE arm = "goto" ->
            <<[url |-> GotoUrl(step.goto, base),
               timeout |-> TimeoutOr(step, GotoTimeout)]
              @@ DriverCall("page.goto", arm)>>
      [] arm = "click" ->
            LET selector == resolveSelector(step.click) IN
            <<Wait(selector, SelectorTimeout), TimerCall("randomDelay", arm),
              On("page.click", selector)>>
      [] arm = "type" ->
            LET selector == resolveSelector(step.type) IN
            <<Wait(selector, SelectorTimeout), On("page.click", selector),
              On("page.evaluate", selector)>> \o humanType(selector, step.text, arm)
      [] arm = "waitFor" ->
            <<Wait(resolveSelector(step.waitFor), WaitForTimeout)>>
      [] arm = "screenshot" -> takeScreenshotCalls(arm)
      [] arm = "verify" ->
            LET selector == resolveSelector(step.verify) IN
            <<Wait(selector, SelectorTimeout), On("page.$eval", selector)>>
      [] arm = "wait" -> <<TimerCall("sleep", arm)>>
      [] arm = "scroll" -> scrollToElement(resolveSelector(step.scroll), arm)
      [] arm = "hover" ->
            LET selector == resolveSelector(step.hover) IN
            <<Wait(selector, SelectorTimeout), On("page.hover", selector)>>
      [] arm = "select" ->
            LET selector == resolveSelector(step.select) IN
            <<Wait(selector, SelectorTimeout), On("page.select", selector)>>
      [] arm = "press" -> <<DriverCall("page.keyboard.press", arm)>>
      [] arm = "evaluate" -> <<DriverCall("page.evaluate", arm)>>
      [] OTHER -> <<>>

\* Whether one of the calls raises under drv, and the calls made until then.
Raises(calls, drv) == drv.failAt \in 1..Len(calls) /\ calls[drv.failAt].driver
Performed(calls, drv) ==
    IF Raises(calls, drv) THEN SubSeq(calls, 1, drv.failAt) ELSE calls

NoException == [name |-> "", message |-> ""]

\* The try block (twitter.ts 295-396): either it completes with the result
\* as the arm left it, or a driver call raises and the result is untouched.
TryBlock(step, base, screenshotDir, drv, result) ==
    LET arm == Arm(step)
        calls == ArmCalls(step, arm, base)
        ok == [result EXCEPT !.success = TRUE]
    IN  IF Raises(calls, drv)
        THEN [thrown |-> TRUE, exc |-> drv.exc, result |-> result,
              calls |-> Performed(calls, drv)]
        ELSE [thrown |-> FALSE, exc |-> NoException, calls |-> calls,
              result |->
                CASE arm = "unknown" ->
                        [error |-> <<"Unknown step type: ">> \o JSONStringify(step)]
                        @@ result
                  [] arm = "screenshot" ->
                        [screenshotPath |-> takeScreenshot(step.screenshot, screenshotDir)]
                        @@ ok
                  [] arm = "verify" ->
                        IF Includes(ToLowerCase(drv.text), ToLowerCase(step.contains))
                        THEN ok
                        ELSE [error |-> <<"Expected ", Quote>> \o step.contains
                                        \o <<Quote, " but found ", Quote>>
                                        \o Slice(drv.text, 0, 100) \o <<Quote>>]
                             @@ [result EXCEPT !.success = FALSE]
                  [] OTHER -> ok]

\* The catch clause (twitter.ts 397-400).
CatchMessageOnly(body) ==
    IF body.thrown
    THEN [thrown |-> FALSE, exc |-> NoException, calls |-> body.calls,
          result |-> [error |-> <<body.exc.message>>]
                     @@ [body.result EXCEPT !.success = FALSE]]
    ELSE body
CatchWithoutError(body) ==
    IF body.thrown
    THEN [thrown |-> FALSE, exc |-> NoException, calls |-> body.calls,
          result |-> [body.result EXCEPT !.success = FALSE]]
    ELSE body
Catch(body) ==
    IF body.thrown
    THEN [thrown |-> FALSE, exc |-> NoException, calls |-> body.calls,
          result |-> [error |-> StringOfError(body.exc)]
                     @@ [body.result EXCEPT !.success = FALSE]]
    ELSE body

\* executeStep: what the call does (calls), how it completes (thrown, exc)
\* and the StepResult it returns; elapsed is Date.now() - startTime.
executeStep(step, base, screenshotDir, drv, elapsed) ==
    LET result == [step |-> step, success |-> FALSE, duration |-> 0]
        done == Catch(TryBlock(step, base, screenshotDir, drv, result))
    IN  [done EXCEPT !.result = [done.result EXCEPT !.duration = elapsed]]

----------------------------------------------------------------------------
(* Inputs of a run *)

MaxSteps == 2
MaxTick == 1
MaxClock == 2

TestFlowName == <<"L", "o", "g", "i", "n">>
FlowPath == <<"f", ".", "j", "s", "o", "n">>

\* Step shapes the runner is exercised with: a navigation, a verification,
\* and a `type` that lacks its `text`.
RunnerSteps == {StepWith({"goto"}), StepWith({"verify", "contains"}),
                StepWith({"type"})}

RECURSIVE SeqsUpTo(_, _)
SeqsUpTo(S, n) ==
    IF n = 0 THEN {<<>>}
    ELSE LET shorter == SeqsUpTo(S, n - 1)
         IN  shorter \cup {Append(q, x) : q \in {r \in shorter : Len(r) = n - 1}, x \in S}

TestFlows == {[name |-> TestFlowName, steps |-> ss] : ss \in SeqsUpTo(RunnerSteps, MaxSteps)}

\* How the flow reaches runTestFlow: inline, from a file that parses, from a
\* file that is missing or is not JSON, or not at all.
RunSources ==
    {[opts |-> [flow |-> f], disk |-> [state |-> "missing"]] : f \in TestFlows}
    \cup {[opts |-> [flowPath |-> FlowPath], disk |-> [state |-> "json", flow |-> f]] :
            f \in TestFlows}
    \cup {[opts |-> [flowPath |-> FlowPath], disk |-> [state |-> "missing"]],
          [opts |-> [flowPath |-> FlowPath], disk |-> [state |-> "garbage"]],
          [opts |-> [flowPath |-> <<>>], disk |-> [state |-> "missing"]],
          [opts |-> <<>>, disk |-> [state |-> "missing"]]}

\* Driver behaviours the runner is exercised with during a step.
RunnerDriver(step) ==
    {[failAt |-> n, exc |-> TimeoutError, text |-> t] :
        n \in 0..Len(ArmCalls(step, Arm(step), <<>>)), t \in {<<"o", "k", "!">>, <<"N", "o">>}}

----------------------------------------------------------------------------
(* config.ts loadTestFlow (185-192) *)

loadTestFlowUnchecked(filepath, d) ==
    IF d.state = "json" THEN [thrown |-> FALSE, value |-> d.flow]
    ELSE [thrown |-> FALSE, value |-> [name |-> <<>>, steps |-> <<>>]]
loadTestFlow(filepath, d) ==
    IF d.state = "missing"
    THEN [thrown |-> TRUE,
          exc |-> [name |-> "Error", message |-> "Test flow file not found"]]
    ELSE IF d.state = "garbage"
    THEN [thrown |-> TRUE,
          exc |-> [name |-> "SyntaxError", message |-> "Unexpected token in JSON"]]
    ELSE [thrown |-> FALSE, value |-> d.flow]

\* runner.ts 43-51: the flow runTestFlow works on, or the error it throws.
\* A string is truthy when it is not empty.
LoadFlow(o, d) ==
    IF Has(o, "flow") THEN [thrown |-> FALSE, value |-> o.flow]
    ELSE IF Has(o, "flowPath") /\ Len(o.flowPath) > 0 THEN loadTestFlow(o.flowPath, d)
    ELSE [thrown |-> TRUE,
          exc |-> [name |-> "Error",
                   message |-> "Either flowPath or flow must be provided"]]

\* The flow's own baseUrl taking precedence over the override.
BaseUrlOfFlowFirst(o, f) ==
    IF Has(f, "baseUrl") /\ Len(f.baseUrl) > 0 THEN f.baseUrl
    ELSE IF Has(o, "baseUrl") /\ Len(o.baseUrl) > 0 THEN o.baseUrl
    ELSE <<>>

\* runner.ts 53: overrideBaseUrl || flow.baseUrl || ''.  An absent field
\* and the empty string are both falsy.
BaseUrlOf(o, f) ==
    IF Has(o, "baseUrl") /\ Len(o.baseUrl) > 0 THEN o.baseUrl
    ELSE IF Has(f, "baseUrl") /\ Len(f.baseUrl) > 0 THEN f.baseUrl
    ELSE <<>>

\* Destructuring defaults (runner.ts 39-40)
StopOnFailure(o) == Has(o, "stopOnFailure") /\ o.stopOnFailure
JsonOutput(o) == Has(o, "jsonOutput") /\ o.jsonOutput

----------------------------------------------------------------------------
(* reporter.ts *)

\* reportStep (18-37): the line printed for one step
reportStep(result, index) ==
    [kind |-> "step", index |-> index, success |-> result.success]

\* reportSummary (42-64)
reportSummary(res) ==
    [kind |-> "summary", passed |-> res.passed, failed |-> res.failed,
     total |-> res.total]

\* getActionName (twitter.ts 428-442); a missing `contains` is rendered
\* as the word undefined.
getActionName(step) ==
    IF Has(step, "goto") THEN <<"goto ">> \o step.goto
    ELSE IF Has(step, "click") THEN <<"click ", Quote>> \o step.click \o <<Quote>>
    ELSE IF Has(step, "type") THEN <<"type ">> \o step.type
    ELSE IF Has(step, "waitFor") THEN <<"waitFor ">> \o step.waitFor
    ELSE IF Has(step, "screenshot")
    THEN <<"screenshot ", Quote>> \o step.screenshot \o <<Quote>>
    ELSE IF Has(step, "verify")
    THEN <<"verify ">> \o step.verify \o <<" contains ", Quote>>
         \o (IF Has(step, "contains") THEN step.contains ELSE <<"undefined">>)
         \o <<Quote>>
    ELSE IF Has(step, "wait") THEN <<"wait ", ToString(step.wait), "ms">>
    ELSE IF Has(step, "scroll") THEN <<"scroll ">> \o step.scroll
    ELSE IF Has(step, "hover") THEN <<"hover ">> \o step.hover
    ELSE IF Has(step, "select") THEN <<"select ">> \o step.select
    ELSE IF Has(step, "press") THEN <<"press ">> \o step.press
    ELSE IF Has(step, "evaluate") THEN <<"evaluate (custom JS)">>
    ELSE <<"unknown action">>

\* createJsonReport (91-112).  The entry of one step (103-110): a field
\* whose value is undefined is absent.
jsonStepZeroBased(s, k) ==
    (IF Has(s, "error") THEN [error |-> s.error] ELSE <<>>)
    @@ (IF Has(s, "screenshotPath") THEN [screenshot |-> s.screenshotPath] ELSE <<>>)
    @@ [index |-> k - 1, action |-> getActionName(s.step), success |-> s.success,
        duration |-> s.duration]
jsonStep(s, k) ==
    (IF Has(s, "error") THEN [error |-> s.error] ELSE <<>>)
    @@ (IF Has(s, "screenshotPath") THEN [screenshot |-> s.screenshotPath] ELSE <<>>)
    @@ [index |-> k, action |-> getActionName(s.step), success |-> s.success,
        duration |-> s.duration]

createJsonReport(res) ==
    [name |-> res.name,
     baseUrl |-> res.baseUrl,
     timestamp |-> <<"<timestamp>">>,
     summary |-> [passed |-> res.passed, failed |-> res.failed, total |-> res.total,
                  duration |-> res.duration, success |-> res.failed = 0],
     steps |-> [k \in 1..Len(res.steps) |-> jsonStep(res.steps[k], k)]]

\* printTestHeader (117-122)
printTestHeader(name) == [kind |-> "header", name |-> name]

----------------------------------------------------------------------------
(* runTestFlow (runner.ts 32-133).  One action per stretch of code between *)
(* two awaits; the time the awaited operation took is dt.                  *)

\* A clock that may also be set back while an operation is awaited.
ElapsedSetBack == {dt \in (0 - MaxTick)..MaxTick : now + dt \in 0..MaxClock}

\* The time an awaited operation may take; the clock is not followed
\* beyond MaxClock.
Elapsed == {dt \in 0..MaxTick : now + dt <= MaxClock}

NoFlow == [name |-> <<>>, steps |-> <<>>]
NotThrown == [thrown |-> FALSE, exc |-> NoException]
AcquireError == [name |-> "Error", message |-> "Failed to launch the browser process"]
CloseError == [name |-> "Error", message |-> "Protocol error: Target closed"]
DbError == [name |-> "SqliteError", message |-> "database is locked"]

\* No second invocation, no command and no runMultipleFlows around the run.
NoOther == [pc |-> "none", browser |-> 0]
NoMulti == [pc |-> "none", flowPaths |-> <<>>, files |-> <<>>, options |-> <<>>,
            k |-> 0, results |-> <<>>, totalPassed |-> 0, totalFailed |-> 0,
            settled |-> <<>>]
NoCallers ==
    /\ other = NoOther
    /\ exitCode = -1
    /\ multi = NoMulti

Init ==
    /\ \E src \in RunSources, stop \in BOOLEAN, json \in BOOLEAN :
          /\ opts = [stopOnFailure |-> stop, jsonOutput |-> json] @@ src.opts
          /\ disk = src.disk
    /\ flow = NoFlow
    /\ pc = "start"
    /\ i = 0
    /\ stepResults = <<>>
    /\ passed = 0
    /\ failed = 0
    /\ pending = NotThrown
    /\ browserInstance = 0
    /\ launched = 0
    /\ openBrowsers = {}
    /\ browser = 0
    /\ page = "none"
    /\ stepLog = <<>>
    /\ db = <<>>
    /\ out = <<>>
    /\ results = [computed |-> FALSE]
    /\ outcome = [kind |-> "pending"]
    /\ now = 0
    /\ startTime = 0
    /\ baseUrl = <<>>
    /\ clockAt = <<>>
    /\ NoCallers

Reject(e) ==
    /\ pc' = "rejected"
    /\ outcome' = [kind |-> "throw", exc |-> e]

\* A loop that calls executeStep for every remaining step without
\* awaiting any of them.
EnterIterationUnawaited(k) ==
    /\ i' = k
    /\ IF k <= Len(flow.steps)
       THEN /\ pc' = "inStep"
            /\ stepLog' = stepLog \o [j \in 1..(Len(flow.steps) - k + 1) |->
                                        [index |-> k + j - 1,
                                         step |-> flow.steps[k + j - 1],
                                         returned |-> FALSE]]
       ELSE /\ pc' = "closingPage"
            /\ stepLog' = stepLog

\* runner.ts 74-76 / 96-97: the loop test for index k, then either the call
\* of executeStep for step k or the finally block's page.close().
EnterIteration(k) ==
    /\ i' = k
    /\ IF k <= Len(flow.steps)
       THEN /\ pc' = "inStep"
            /\ stepLog' = Append(stepLog, [index |-> k, step |-> flow.steps[k],
                                           returned |-> FALSE])
       ELSE /\ pc' = "closingPage"
            /\ stepLog' = stepLog

\* runner.ts 33-65, browser.ts 15-22: options, flow loading, header, and
\* the call of launchBrowser up to its await.
Start ==
    /\ pc = "start"
    /\ LET loaded == LoadFlow(opts, disk) IN
       IF loaded.thrown
       THEN /\ Reject(loaded.exc)
            /\ UNCHANGED <<flow, out, baseUrl, clockAt>>
       ELSE /\ flow' = loaded.value
            /\ baseUrl' = BaseUrlOf(opts, loaded.value)
            /\ clockAt' = [launchCalled |-> now]
            /\ out' = IF JsonOutput(opts) THEN out
                      ELSE Append(out, printTestHeader(loaded.value.name))
            /\ pc' = IF browserInstance # 0 THEN "reuseBrowser" ELSE "launching"
            /\ UNCHANGED outcome
    /\ UNCHANGED <<opts, disk, i, stepResults, passed, failed, pending,
                   browserInstance, launched, openBrowsers, browser, page,
                   stepLog, db, results, now, startTime>>
    /\ UNCHANGED callers

\* browser.ts 22-40, runner.ts 65-66: puppeteer.launch resolves (or the
\* cached instance is returned) and newPage is called.
BrowserLaunched ==
    /\ pc \in {"launching", "reuseBrowser"}
    /\ \E dt \in Elapsed : now' = now + dt
    /\ IF pc = "reuseBrowser"
       THEN /\ browser' = browserInstance
            /\ UNCHANGED <<browserInstance, launched, openBrowsers>>
       ELSE /\ launched' = launched + 1
            /\ browserInstance' = launched + 1
            /\ openBrowsers' = openBrowsers \cup {launched + 1}
            /\ browser' = launched + 1
    /\ pc' = "openingPage"
    /\ UNCHANGED <<opts, disk, flow, i, stepResults, passed, failed, pending,
                   page, stepLog, db, out, results, outcome, startTime, baseUrl,
                   clockAt>>
    /\ UNCHANGED callers

\* puppeteer.launch rejects: runTestFlow rejects at line 65.
LaunchFails ==
    /\ pc = "launching"
    /\ Reject(AcquireError)
    /\ UNCHANGED <<opts, disk, flow, i, stepResults, passed, failed, pending,
                   browserInstance, launched, openBrowsers, browser, page,
                   stepLog, db, out, results, now, startTime, baseUrl, clockAt>>
    /\ UNCHANGED callers

\* The page is ready, with the start timestamp read before newPage was
\* awaited.
PageOpenedStartedEarly ==
    /\ pc = "openingPage"
    /\ browser \in openBrowsers
    /\ \E dt \in Elapsed : now' = now + dt
    /\ page' = "open"
    /\ startTime' = now
    /\ clockAt' = [acquired |-> now'] @@ clockAt
    /\ stepResults' = <<>>
    /\ passed' = 0
    /\ failed' = 0
    /\ EnterIteration(1)
    /\ UNCHANGED <<opts, disk, flow, pending, browserInstance, launched, openBrowsers,
                   browser, db, out, results, outcome, baseUrl>>
    /\ UNCHANGED callers

\* browser.ts 50-64, runner.ts 66-76: the page is ready, the counters are
\* set up and the loop is entered.
PageOpened ==
    /\ pc = "openingPage"
    /\ browser \in openBrowsers
    /\ \E dt \in Elapsed : now' = now + dt
    /\ page' = "open"
    /\ startTime' = now'
    /\ clockAt' = [acquired |-> now'] @@ clockAt
    /\ stepResults' = <<>>
    /\ passed' = 0
    /\ failed' = 0
    /\ EnterIteration(1)
    /\ UNCHANGED <<opts, disk, flow, pending, browserInstance, launched, openBrowsers,
                   browser, db, out, results, outcome, baseUrl>>
    /\ UNCHANGED callers

\* A failure of newPage that is swallowed: the run goes on to its end.
NewPageFailsSwallowed ==
    /\ pc = "openingPage"
    /\ pc' = "closingBrowser"
    /\ UNCHANGED <<opts, disk, flow, i, stepResults, passed, failed, pending,
                   browserInstance, launched, openBrowsers, browser, page,
                   stepLog, db, out, results, outcome, now, startTime, baseUrl,
                   clockAt>>
    /\ UNCHANGED callers

\* browser.newPage() (or a later call of newPage) rejects: runTestFlow
\* rejects at line 66.
NewPageFails ==
    /\ pc = "openingPage"
    /\ Reject(AcquireError)
    /\ UNCHANGED <<opts, disk, flow, i, stepResults, passed, failed, pending,
                   browserInstance, launched, openBrowsers, browser, page,
                   stepLog, db, out, results, now, startTime, baseUrl, clockAt>>
    /\ UNCHANGED callers

\* The entry of stepLog for a call of executeStep that has completed; text
\* is what page.$eval returned, if it was called and returned.
Completed(call, drv, done) ==
    LET raised == Raises(ArmCalls(call.step, Arm(call.step), baseUrl), drv) IN
    [index |-> call.index, step |-> call.step, returned |-> TRUE,
     calls |-> done.calls, thrown |-> done.thrown,
     raised |-> raised, exc |-> drv.exc,
     text |-> IF Arm(call.step) = "verify" /\ ~raised THEN drv.text ELSE <<>>,
     result |-> done.result]

\* stepResults.push(result) (runner.ts 78)
Unshift(list, x) == <<x>> \o list
Push(list, x) == Append(list, x)

\* passed++ / failed++ in the branch that is taken (runner.ts 80-84)
CountAlways(n, taken) == n + 1
Count(n, taken) == IF taken THEN n + 1 ELSE n

\* The loop's exit test after a step (runner.ts 91-94).
StopsAfterAnyFailure(result, o) == ~result.success
StopsAfterNothing(result, o) == FALSE
StopsAfterSuccess(result, o) == result.success /\ StopOnFailure(o)
StopsAfter(result, o) == ~result.success /\ StopOnFailure(o)

\* twitter.ts 288-404, runner.ts 76-95 and then 74-76 or 96-97: executeStep
\* completes for step i; its result is pushed, counted and reported, and
\* the loop goes on to the next step or leaves for the finally block.
StepReturns ==
    /\ pc = "inStep"
    /\ \E drv \in RunnerDriver(flow.steps[i]), dt \in Elapsed :
        LET done == executeStep(flow.steps[i], baseUrl, ScreenshotDir, drv, dt)
            logged == [stepLog EXCEPT ![Len(stepLog)] = Completed(@, drv, done)]
        IN  /\ now' = now + dt
            /\ IF done.thrown
               THEN /\ pending' = [thrown |-> TRUE, exc |-> done.exc]
                    /\ pc' = "closingPage"
                    /\ stepLog' = logged
                    /\ UNCHANGED <<i, stepResults, passed, failed, out>>
               ELSE /\ stepResults' = Push(stepResults, done.result)
                    /\ passed' = Count(passed, done.result.success)
                    /\ failed' = Count(failed, ~done.result.success)
                    /\ out' = IF JsonOutput(opts) THEN out
                              ELSE Append(out, reportStep(done.result, i))
                    /\ pending' = pending
                    /\ IF StopsAfter(done.result, opts)
                       THEN /\ pc' = "closingPage"
                            /\ i' = i
                            /\ stepLog' = logged
                       ELSE /\ i' = i + 1
                            /\ IF i + 1 <= Len(flow.steps)
                               THEN /\ pc' = "inStep"
                                    /\ stepLog' = Append(logged,
                                          [index |-> i + 1, step |-> flow.steps[i + 1],
                                           returned |-> FALSE])
                               ELSE /\ pc' = "closingPage"
                                    /\ stepLog' = logged
    /\ UNCHANGED <<opts, disk, flow, browserInstance, launched, openBrowsers,
                   browser, page, db, results, outcome, startTime, baseUrl, clockAt>>
    /\ UNCHANGED callers

\* runner.ts 97-98: page.close() resolves and browser.close() is called.
PageClosed ==
    /\ pc = "closingPage"
    /\ browser \in openBrowsers
    /\ \E dt \in Elapsed : now' = now + dt
    /\ page' = "closed"
    /\ pc' = "closingBrowser"
    /\ UNCHANGED <<opts, disk, flow, i, stepResults, passed, failed, pending,
                   browserInstance, launched, openBrowsers, browser, stepLog,
                   db, out, results, outcome, startTime, baseUrl, clockAt>>
    /\ UNCHANGED callers

\* runner.ts 97: page.close() rejects; the finally block is left with that
\* exception and runTestFlow rejects.
PageCloseFails ==
    /\ pc = "closingPage"
    /\ Reject(CloseError)
    /\ UNCHANGED <<opts, disk, flow, i, stepResults, passed, failed, pending,
                   browserInstance, launched, openBrowsers, browser, page,
                   stepLog, db, out, results, now, startTime, baseUrl, clockAt>>
    /\ UNCHANGED callers

\* runner.ts 98: browser.close() rejects.
BrowserCloseFails ==
    /\ pc = "closingBrowser"
    /\ Reject(CloseError)
    /\ UNCHANGED <<opts, disk, flow, i, stepResults, passed, failed, pending,
                   browserInstance, launched, openBrowsers, browser, page,
                   stepLog, db, out, results, now, startTime, baseUrl, clockAt>>
    /\ UNCHANGED callers

\* runner.ts 103-112
TestResults(duration) ==
    [name |-> flow.name, baseUrl |-> baseUrl, steps |-> stepResults,
     passed |-> passed, failed |-> failed, total |-> Len(flow.steps),
     duration |-> duration, screenshotDir |-> ScreenshotDir]

\* A record whose total is the number of steps that were attempted.
TestRecordAttempted(duration) ==
    [flow_name |-> flow.name, base_url |-> baseUrl, passed |-> passed,
     failed |-> failed, total |-> passed + failed, duration_ms |-> duration]

\* runner.ts 115-123: the TestRecord handed to recordTestRun
TestRecord(duration) ==
    [flow_name |-> flow.name, base_url |-> baseUrl, passed |-> passed,
     failed |-> failed, total |-> Len(flow.steps), duration_ms |-> duration]

\* runner.ts 125-130: what is printed at the end of a run
FinalReport(res, o) ==
    IF JsonOutput(o) THEN [kind |-> "json", report |-> createJsonReport(res)]
    ELSE reportSummary(res)

\* runner.ts 98-132: browser.close() resolves; an exception pending from
\* the try block is rethrown, otherwise the results are computed, the run
\* is recorded (db.ts 171-189), the report is printed and the results are
\* returned.  dbFails: recordTestRun throws.
Finish(dbFails) ==
    /\ pc = "closingBrowser"
    /\ \E dt \in Elapsed : now' = now + dt
    /\ openBrowsers' = openBrowsers \ {browser}
    /\ clockAt' = [released |-> now'] @@ clockAt
    /\ IF pending.thrown
       THEN /\ Reject(pending.exc)
            /\ UNCHANGED <<results, db, out>>
       ELSE LET duration == now' - startTime
                res == TestResults(duration)
            IN  /\ results' = [computed |-> TRUE, value |-> res]
                /\ IF dbFails
                   THEN /\ Reject(DbError)
                        /\ UNCHANGED <<db, out>>
                   ELSE /\ db' = Append(db, TestRecord(duration))
                        /\ out' = Append(out, FinalReport(res, opts))
                        /\ pc' = "returned"
                        /\ outcome' = [kind |-> "return", value |-> res]
    /\ UNCHANGED <<opts, disk, flow, i, stepResults, passed, failed, pending,
                   browserInstance, launched, browser, page, stepLog, startTime,
                   baseUrl>>
    /\ UNCHANGED callers

BrowserClosed == Finish(FALSE)
RecordTestRunFails == Finish(TRUE)

Next ==
    \/ Start
    \/ BrowserLaunched
    \/ LaunchFails
    \/ PageOpened
    \/ NewPageFails
    \/ StepReturns
    \/ PageClosed
    \/ PageCloseFails
    \/ BrowserClosed
    \/ BrowserCloseFails
    \/ RecordTestRunFails

Spec == Init /\ [][Next]_vars

----------------------------------------------------------------------------
(* The step executor on its own: executeStep applied to every shape of     *)
(* step object (any subset of the fields of TestStep), under every         *)
(* behaviour of the driver.                                                *)

AllSteps == {StepWith(fs) : fs \in SUBSET Fields}

\* Either no call raises and page.$eval reads some text, or the call at
\* position n raises some exception.
StepDriver(step) ==
    {[failAt |-> 0, exc |-> TimeoutError, text |-> t] : t \in ElementTexts}
    \cup {[failAt |-> n, exc |-> e, text |-> <<>>] :
            n \in 1..Len(ArmCalls(step, Arm(step), <<>>)), e \in Exceptions}

InitStep ==
    /\ opts = <<>>
    /\ disk = [state |-> "missing"]
    /\ \E step \in AllSteps : flow = [name |-> TestFlowName, steps |-> <<step>>]
    /\ pc = "executor"
    /\ i = 1
    /\ stepResults = <<>>
    /\ passed = 0
    /\ failed = 0
    /\ pending = NotThrown
    /\ browserInstance = 0
    /\ launched = 0
    /\ openBrowsers = {}
    /\ browser = 0
    /\ page = "open"
    /\ stepLog = <<>>
    /\ db = <<>>
    /\ out = <<>>
    /\ results = [computed |-> FALSE]
    /\ outcome = [kind |-> "pending"]
    /\ now = 0
    /\ startTime = 0
    /\ baseUrl = <<>>
    /\ clockAt = <<>>
    /\ NoCallers

\* twitter.ts 282-404: one call of executeStep, from call to completion.
ExecuteStepAlone ==
    /\ pc = "executor"
    /\ \E drv \in StepDriver(flow.steps[1]), dt \in Elapsed :
        LET done == executeStep(flow.steps[1], baseUrl, ScreenshotDir, drv, dt)
            call == [index |-> 1, step |-> flow.steps[1], returned |-> FALSE]
        IN  /\ now' = now + dt
            /\ stepLog' = <<Completed(call, drv, done)>>
            /\ stepResults' = IF done.thrown THEN <<>> ELSE <<done.result>>
            /\ pending' = IF done.thrown THEN [thrown |-> TRUE, exc |-> done.exc]
                          ELSE pending
    /\ pc' = "executed"
    /\ UNCHANGED <<opts, disk, flow, i, passed, failed, browserInstance, launched,
                   openBrowsers, browser, page, db, out, results, outcome, startTime,
                   baseUrl, clockAt>>
    /\ UNCHANGED callers

NextStep == ExecuteStepAlone

SpecStep == InitStep /\ [][NextStep]_vars

----------------------------------------------------------------------------
(* The step executor under varied arguments: navigation targets with and   *)
(* without a scheme, selectors of every notation, steps with and without a *)
(* timeout, with and without a base URL.                                   *)

GotoTargets ==
    {<<"/", "a">>,
     <<"h", "t", "t", "p", ":", "/", "/", "x">>,
     <<"h", "t", "t", "p", "s", ":", "/", "/", "x">>,
     <<"f", "i", "l", "e", ":", "/", "/", "/", "x">>,
     <<"h", "t", "t", "p", "d", "/", "x">>}

TextSelector == <<"t", "e", "x", "t", "=", "G", "o">>

Selectors ==
    {<<"#", "b">>,
     TextSelector,
     <<"t", "e", "x", "t", "=">>,
     <<"x", "p", "a", "t", "h", "=", "/", "/", "a">>,
     resolveSelector(TextSelector)}

\* TestStep.timeout: absent, 0, or a number of milliseconds
StepTimeouts == {<<>>, [timeout |-> 0], [timeout |-> 5000]}

SelectorSteps(s) ==
    {[click |-> s], [type |-> s, text |-> FieldValue.text], [waitFor |-> s],
     [verify |-> s, contains |-> FieldValue.contains], [scroll |-> s],
     [hover |-> s], [select |-> s, value |-> FieldValue.value]}

ArgumentSteps ==
    {t @@ [goto |-> g] : t \in StepTimeouts, g \in GotoTargets}
    \cup {t @@ step : t \in StepTimeouts,
                      step \in UNION {SelectorSteps(s) : s \in Selectors}}

InitArguments ==
    /\ opts = <<>>
    /\ disk = [state |-> "missing"]
    /\ \E step \in ArgumentSteps : flow = [name |-> TestFlowName, steps |-> <<step>>]
    /\ pc = "executor"
    /\ i = 1
    /\ stepResults = <<>>
    /\ passed = 0
    /\ failed = 0
    /\ pending = NotThrown
    /\ browserInstance = 0
    /\ launched = 0
    /\ openBrowsers = {}
    /\ browser = 0
    /\ page = "open"
    /\ stepLog = <<>>
    /\ db = <<>>
    /\ out = <<>>
    /\ results = [computed |-> FALSE]
    /\ outcome = [kind |-> "pending"]
    /\ now = 0
    /\ startTime = 0
    /\ baseUrl \in {<<>>, <<"h", "t", "t", "p", ":", "/", "/", "f">>}
    /\ clockAt = <<>>
    /\ NoCallers

SpecArguments == InitArguments /\ [][NextStep]_vars

----------------------------------------------------------------------------
(* The flow runner under every combination of base URLs: the override of   *)
(* the options and the flow's own baseUrl are each absent, empty or a URL. *)

\* Everything but the inputs of a run is as it is before the run.
Idle ==
    /\ flow = NoFlow
    /\ pc = "start"
    /\ i = 0
    /\ stepResults = <<>>
    /\ passed = 0
    /\ failed = 0
    /\ pending = NotThrown
    /\ browserInstance = 0
    /\ launched = 0
    /\ openBrowsers = {}
    /\ browser = 0
    /\ page = "none"
    /\ stepLog = <<>>
    /\ db = <<>>
    /\ out = <<>>
    /\ results = [computed |-> FALSE]
    /\ outcome = [kind |-> "pending"]
    /\ now = 0
    /\ startTime = 0
    /\ baseUrl = <<>>
    /\ clockAt = <<>>

FlowBaseUrl == <<"h", "t", "t", "p", ":", "/", "/", "f">>
OverrideBaseUrl == <<"h", "t", "t", "p", ":", "/", "/", "o">>

\* An optional string field: absent, the empty string, or a value.
Optional(field, value) == {<<>>, field :> <<>>, field :> value}

\* Flows of navigation steps, with or without a baseUrl of their own.
UrlFlows ==
    {b @@ [name |-> TestFlowName, steps |-> ss] :
        b \in Optional("baseUrl", FlowBaseUrl),
        ss \in SeqsUpTo({StepWith({"goto"})}, MaxSteps)}

InitUrl ==
    /\ \E f \in UrlFlows, o \in Optional("baseUrl", OverrideBaseUrl),
          stop \in BOOLEAN, json \in BOOLEAN :
          opts = o @@ [flow |-> f, stopOnFailure |-> stop, jsonOutput |-> json]
    /\ disk = [state |-> "missing"]
    /\ Idle
    /\ NoCallers

SpecUrl == InitUrl /\ [][Next]_vars

----------------------------------------------------------------------------
(* The flow runner printing its JSON report, for flows of screenshots and  *)
(* verifications.                                                          *)

ReportFlows ==
    {[name |-> TestFlowName, steps |-> ss] :
        ss \in SeqsUpTo({StepWith({"screenshot"}), StepWith({"verify", "contains"})},
                        MaxSteps)}

InitReport ==
    /\ \E f \in ReportFlows, stop \in BOOLEAN :
          opts = [flow |-> f, stopOnFailure |-> stop, jsonOutput |-> TRUE]
    /\ disk = [state |-> "missing"]
    /\ Idle
    /\ NoCallers

SpecReport == InitReport /\ [][Next]_vars

----------------------------------------------------------------------------
(* Two invocations of runTestFlow that overlap in one process.  The second *)
(* invocation is followed through the lines that touch the browser module  *)
(* (runner.ts 65-66 and 96-99, browser.ts 13-41) only.                     *)

\* The state of one invocation, and the state of the browser module
runVars == <<opts, disk, flow, pc, i, stepResults, passed, failed, pending,
             browser, page, stepLog, db, out, results, outcome, now, startTime,
             baseUrl, clockAt>>
browserModule == <<browserInstance, launched, openBrowsers>>

\* runner.ts 65, browser.ts 15-22: launchBrowser is called; it returns the
\* cached instance if there is one.
OtherStart ==
    /\ other.pc = "start"
    /\ other' = IF browserInstance # 0
                THEN [pc |-> "openingPage", browser |-> browserInstance]
                ELSE [pc |-> "launching", browser |-> 0]
    /\ UNCHANGED <<runVars, browserModule, exitCode, multi>>

\* browser.ts 22-40: puppeteer.launch resolves.
OtherLaunched ==
    /\ other.pc = "launching"
    /\ launched' = launched + 1
    /\ browserInstance' = launched + 1
    /\ openBrowsers' = openBrowsers \cup {launched + 1}
    /\ other' = [pc |-> "openingPage", browser |-> launched + 1]
    /\ UNCHANGED <<runVars, exitCode, multi>>

\* runner.ts 66-76: newPage resolves and the step loop is entered.
OtherPageOpened ==
    /\ other.pc = "openingPage"
    /\ other.browser \in openBrowsers
    /\ other' = [other EXCEPT !.pc = "inLoop"]
    /\ UNCHANGED <<runVars, browserModule, exitCode, multi>>

\* runner.ts 66 / 97: newPage or page.close() rejects and with it the
\* invocation.
OtherRejects ==
    /\ other.pc \in {"openingPage", "closingPage"}
    /\ other' = [other EXCEPT !.pc = "done"]
    /\ UNCHANGED <<runVars, browserModule, exitCode, multi>>

\* runner.ts 74-97: the step loop is left and page.close() is called.
OtherLoopExits ==
    /\ other.pc = "inLoop"
    /\ other' = [other EXCEPT !.pc = "closingPage"]
    /\ UNCHANGED <<runVars, browserModule, exitCode, multi>>

\* runner.ts 97-98: page.close() resolves and browser.close() is called.
OtherPageClosed ==
    /\ other.pc = "closingPage"
    /\ other.browser \in openBrowsers
    /\ other' = [other EXCEPT !.pc = "closingBrowser"]
    /\ UNCHANGED <<runVars, browserModule, exitCode, multi>>

\* runner.ts 98: browser.close() resolves.
OtherBrowserClosed ==
    /\ other.pc = "closingBrowser"
    /\ openBrowsers' = openBrowsers \ {other.browser}
    /\ other' = [other EXCEPT !.pc = "done"]
    /\ UNCHANGED <<runVars, browserInstance, launched, exitCode, multi>>

\* Flows of navigation steps
GotoFlows ==
    {[name |-> TestFlowName, steps |-> ss] :
        ss \in SeqsUpTo({StepWith({"goto"})}, MaxSteps)}

InitOverlap ==
    /\ \E f \in GotoFlows, stop \in BOOLEAN :
          opts = [flow |-> f, stopOnFailure |-> stop, jsonOutput |-> TRUE]
    /\ disk = [state |-> "missing"]
    /\ Idle
    /\ other = [pc |-> "start", browser |-> 0]
    /\ exitCode = -1
    /\ multi = NoMulti

NextOverlap ==
    \/ Next
    \/ OtherStart
    \/ OtherLaunched
    \/ OtherPageOpened
    \/ OtherRejects
    \/ OtherLoopExits
    \/ OtherPageClosed
    \/ OtherBrowserClosed

SpecOverlap == InitOverlap /\ [][NextOverlap]_vars

----------------------------------------------------------------------------
(* The `test run` command (createTestCommand): it checks that the flow file *)
(* exists, calls runTestFlow and exits with a code that tells the outcome.  *)

\* The exit code for a settled run: results.failed > 0 ? 1 : 0 in the try
\* block, 1 in the catch clause.
ExitCodeByPassed(settled) ==
    IF settled.kind = "return" /\ settled.value.passed > 0 THEN 0 ELSE 1
ExitCode(settled) ==
    IF settled.kind = "return"
    THEN (IF settled.value.failed > 0 THEN 1 ELSE 0)
    ELSE 1

\* The action handler up to the call of runTestFlow: process.exit(1) when
\* the file does not exist.
CommandStart ==
    /\ pc = "command"
    /\ IF disk.state = "missing"
       THEN pc' = "exited" /\ exitCode' = 1
       ELSE pc' = "start" /\ exitCode' = exitCode
    /\ UNCHANGED <<opts, disk, flow, i, stepResults, passed, failed, pending,
                   browser, page, stepLog, db, out, results, outcome, now,
                   startTime, baseUrl, clockAt, browserModule, other, multi>>

\* runTestFlow has returned or thrown: process.exit
CommandExit ==
    /\ pc \in {"returned", "rejected"}
    /\ exitCode' = ExitCode(outcome)
    /\ pc' = "exited"
    /\ UNCHANGED <<opts, disk, flow, i, stepResults, passed, failed, pending,
                   browser, page, stepLog, db, out, results, outcome, now,
                   startTime, baseUrl, clockAt, browserModule, other, multi>>

\* The flow file named on the command line: missing, not JSON, or a flow
FlowFiles ==
    {[state |-> "missing"], [state |-> "garbage"]}
    \cup {[state |-> "json", flow |-> f] : f \in TestFlows}

InitCommand ==
    /\ \E stop \in BOOLEAN : opts = [flowPath |-> FlowPath, stopOnFailure |-> stop]
    /\ disk \in FlowFiles
    /\ flow = NoFlow
    /\ pc = "command"
    /\ i = 0
    /\ stepResults = <<>>
    /\ passed = 0
    /\ failed = 0
    /\ pending = NotThrown
    /\ browserInstance = 0
    /\ launched = 0
    /\ openBrowsers = {}
    /\ browser = 0
    /\ page = "none"
    /\ stepLog = <<>>
    /\ db = <<>>
    /\ out = <<>>
    /\ results = [computed |-> FALSE]
    /\ outcome = [kind |-> "pending"]
    /\ now = 0
    /\ startTime = 0
    /\ baseUrl = <<>>
    /\ clockAt = <<>>
    /\ NoCallers

NextCommand ==
    \/ CommandStart
    \/ Next
    \/ CommandExit

SpecCommand == InitCommand /\ [][NextCommand]_vars

----------------------------------------------------------------------------
(* runMultipleFlows (runner.ts 193-225): runTestFlow is called for one     *)
(* flow path after the other in the same process.  multi.k is the position *)
(* of the flow that is running, multi.files[k] the file at flowPaths[k],   *)
(* and multi.settled tells how each call made so far ended.                *)

MaxFlows == 3

FlowPathAt(k) == <<"f", ToString(k), ".", "j", "s", "o", "n">>

\* The files the flow paths name: missing, or a flow of one navigation.
MultiFiles ==
    {[state |-> "missing"],
     [state |-> "json",
      flow |-> [name |-> TestFlowName, steps |-> <<StepWith({"goto"})>>]]}

\* runner.ts 211: the loop's exit test after a returned result
BreaksAfterAnyFailure(result, options) == result.failed > 0
BreaksAfter(result, options) == result.failed > 0 /\ StopOnFailure(options)

\* runner.ts 206-208 and 214-216: the call of runTestFlow has returned, or
\* has thrown into the catch clause.
Accounted(m, settled) ==
    IF settled.kind = "return"
    THEN [m EXCEPT !.results = Append(@, settled.value),
                   !.totalPassed = @ + settled.value.passed,
                   !.totalFailed = @ + settled.value.failed,
                   !.settled = Append(@, "return")]
    ELSE [m EXCEPT !.settled = Append(@, "throw")]

\* runner.ts 197-224: the loop of runMultipleFlows from one call of
\* runTestFlow to the next; it accounts for the call that has settled,
\* if any, and either calls runTestFlow for the next path or prints the
\* totals and returns.
NextFlow ==
    /\ multi.pc = "running"
    /\ pc \in {"multi", "returned", "rejected"}
    /\ LET m == IF pc = "multi" THEN multi ELSE Accounted(multi, outcome)
           printed == IF pc = "rejected"
                      THEN Append(out, [kind |-> "error", flowPath |-> opts.flowPath])
                      ELSE out
           breaks == pc = "returned" /\ BreaksAfter(outcome.value, multi.options)
       IN  IF breaks \/ multi.k = Len(multi.flowPaths)
           THEN /\ multi' = [m EXCEPT !.pc = "done"]
                /\ pc' = "finished"
                /\ out' = Append(printed, [kind |-> "totals",
                                           passed |-> m.totalPassed,
                                           of |-> m.totalPassed + m.totalFailed,
                                           flows |-> Len(m.results)])
                /\ UNCHANGED <<opts, disk, flow, i, stepResults, passed, failed,
                               pending, browser, page, stepLog, results, outcome,
                               startTime, baseUrl, clockAt>>
           ELSE /\ multi' = [m EXCEPT !.k = @ + 1]
                /\ opts' = [flowPath |-> multi.flowPaths[multi.k + 1]] @@ multi.options
                /\ disk' = multi.files[multi.k + 1]
                /\ out' = printed
                /\ flow' = NoFlow
                /\ pc' = "start"
                /\ i' = 0
                /\ stepResults' = <<>>
                /\ passed' = 0
                /\ failed' = 0
                /\ pending' = NotThrown
                /\ browser' = 0
                /\ page' = "none"
                /\ stepLog' = <<>>
                /\ results' = [computed |-> FALSE]
                /\ outcome' = [kind |-> "pending"]
                /\ startTime' = 0
                /\ baseUrl' = <<>>
                /\ clockAt' = <<>>
    /\ UNCHANGED <<browserModule, db, now, other, exitCode>>

InitMulti ==
    /\ \E n \in 0..MaxFlows, stop \in BOOLEAN :
          \E files \in [1..n -> MultiFiles] :
              multi = [pc |-> "running",
                       flowPaths |-> [k \in 1..n |-> FlowPathAt(k)],
                       files |-> files,
                       options |-> [stopOnFailure |-> stop],
                       k |-> 0, results |-> <<>>, totalPassed |-> 0,
                       totalFailed |-> 0, settled |-> <<>>]
    /\ opts = <<>>
    /\ disk = [state |-> "missing"]
    /\ flow = NoFlow
    /\ pc = "multi"
    /\ i = 0
    /\ stepResults = <<>>
    /\ passed = 0
    /\ failed = 0
    /\ pending = NotThrown
    /\ browserInstance = 0
    /\ launched = 0
    /\ openBrowsers = {}
    /\ browser = 0
    /\ page = "none"
    /\ stepLog = <<>>
    /\ db = <<>>
    /\ out = <<>>
    /\ results = [computed |-> FALSE]
    /\ outcome = [kind |-> "pending"]
    /\ now = 0
    /\ startTime = 0
    /\ baseUrl = <<>>
    /\ clockAt = <<>>
    /\ other = NoOther
    /\ exitCode = -1

NextMulti ==
    \/ NextFlow
    \/ Next

SpecMulti == InitMulti /\ [][NextMulti]_vars

----------------------------------------------------------------------------
(* Properties of the flow runner *)

Settled == pc \in {"returned", "rejected"}
Returned == pc = "returned"

\* The positions of the failed outcomes in a list of StepResults.
FailedAt(rs) == {k \in 1..Len(rs) : ~rs[k].success}

\* C1: with stopOnFailure disabled, a returned result of a flow with N
\* steps has total = N and N recorded outcomes, and executeStep has been
\* called for every one of the N steps, whatever steps failed.
C1_AllStepsRun ==
    (Returned /\ ~opts.stopOnFailure) =>
        LET N == Len(flow.steps) IN
        /\ outcome.value.total = N
        /\ Len(outcome.value.steps) = N
        /\ Len(stepLog) = N
        /\ \A k \in 1..N : stepLog[k].index = k /\ stepLog[k].returned

\* C1 witness: a returned run without stopOnFailure whose first step
\* failed and whose later step still ran.
C1_Witness ==
    /\ Returned /\ ~opts.stopOnFailure
    /\ Len(flow.steps) >= 2
    /\ 1 \in FailedAt(outcome.value.steps)
    /\ Len(outcome.value.steps) = Len(flow.steps)

\* C2: with stopOnFailure enabled, once the outcome of step k is the first
\* failed one, executeStep is never called for a later step and no later
\* outcome exists; the returned result has steps.length = k,
\* passed + failed = k and total = N (so passed + failed < total if k < N).
C2_StopOnFirstFailure ==
    (opts.stopOnFailure /\ FailedAt(stepResults) # {}) =>
        LET k == CHOOSE f \in FailedAt(stepResults) :
                    \A g \in FailedAt(stepResults) : f <= g
            N == Len(flow.steps)
        IN  /\ Len(stepResults) = k
            /\ Len(stepLog) = k
            /\ pc # "inStep"
            /\ Returned =>
                  /\ Len(outcome.value.steps) = k
                  /\ outcome.value.passed + outcome.value.failed = k
                  /\ outcome.value.total = N
                  /\ (k < N => outcome.value.passed + outcome.value.failed
                                  < outcome.value.total)

\* C2 witness: stopOnFailure enabled, the first step failed, a second
\* step was declared, and the run returned.
C2_Witness ==
    /\ Returned /\ opts.stopOnFailure
    /\ Len(flow.steps) = 2
    /\ FailedAt(outcome.value.steps) = {1}
    /\ outcome.value.total = 2
    /\ outcome.value.passed + outcome.value.failed = 1

\* C3: outcomes are in declaration order: the outcome at position k was
\* produced from the flow's step k, executeStep is called for the steps
\* 1, 2, ... in that order and at most once each, and a step is called
\* only when every earlier step has its outcome.
C3_DeclarationOrder ==
    /\ \A k \in 1..Len(stepResults) : stepResults[k].step = flow.steps[k]
    /\ \A k \in 1..Len(stepLog) :
          /\ stepLog[k].index = k
          /\ stepLog[k].step = flow.steps[k]
          /\ stepLog[k].returned => stepLog[k].result.step = flow.steps[k]
    /\ Len(stepLog) <= Len(flow.steps)
    /\ Len(stepLog) = Len(stepResults) + (IF pc = "inStep" THEN 1 ELSE 0)
    /\ Returned => \A k \in 1..Len(outcome.value.steps) :
                      outcome.value.steps[k].step = flow.steps[k]

\* C3 witness: a returned run over two different steps, both recorded.
C3_Witness ==
    /\ Returned
    /\ Len(outcome.value.steps) = 2
    /\ flow.steps[1] # flow.steps[2]

----------------------------------------------------------------------------
(* Properties of the step executor *)

\* The calls of executeStep that have completed, in either specification.
CompletedCalls == {k \in 1..Len(stepLog) : stepLog[k].returned}

\* C4: executeStep never throws: every completed call returned a
\* StepResult, and when a driver call raised, the result has
\* success = false and error = the stringified exception.
C4_NeverThrows ==
    \A k \in CompletedCalls :
        LET e == stepLog[k] IN
        /\ ~e.thrown
        /\ e.result.success \in BOOLEAN
        /\ e.result.step = e.step
        /\ e.raised =>
              /\ ~e.result.success
              /\ Has(e.result, "error")
              /\ e.result.error = <<e.exc.name, ": ", e.exc.message>>

\* C4 witness: a driver call other than the first one of its arm raised
\* and the call of executeStep returned a failed result.
C4_Witness ==
    \E k \in CompletedCalls :
        /\ stepLog[k].raised
        /\ Len(stepLog[k].calls) >= 2
        /\ ~stepLog[k].thrown
        /\ ~stepLog[k].result.success

\* The fixed order of the actions, and the companion field three of them
\* need.
PriorityOrder == <<"goto", "click", "type", "waitFor", "screenshot", "verify",
                   "wait", "scroll", "hover", "select", "press", "evaluate">>
Companion == [type |-> "text", verify |-> "contains", select |-> "value"]

Matches(step, a) ==
    Has(step, a) /\ (a \in DOMAIN Companion => Has(step, Companion[a]))

Matching(step) == {k \in 1..Len(PriorityOrder) : Matches(step, PriorityOrder[k])}

\* The action fields a step object carries, as positions in the order.
ActionsOf(step) == {k \in 1..Len(PriorityOrder) : Has(step, PriorityOrder[k])}

\* A malformed step: it carries no action field, or the action field that
\* names it (the first it carries, in the fixed order) needs a companion
\* field that is absent.
Malformed(step) ==
    \/ ActionsOf(step) = {}
    \/ LET a == PriorityOrder[CHOOSE f \in ActionsOf(step) :
                                \A g \in ActionsOf(step) : f <= g]
       IN  a \in DOMAIN Companion /\ ~Has(step, Companion[a])

DriverCallsOf(e) == {k \in 1..Len(e.calls) : e.calls[k].driver}

\* C8: every malformed step yields a failed outcome with an error, and no
\* driver operation is performed for it, whatever other fields it carries
\* (stated for the steps that are malformed whichever way a step carrying
\* several action fields is read: the field naming the step is the one
\* whose companion is absent).
C8_MalformedFails ==
    \A k \in CompletedCalls :
        LET e == stepLog[k] IN
        Malformed(e.step) =>
            /\ ~e.thrown
            /\ ~e.result.success
            /\ Has(e.result, "error")
            /\ DriverCallsOf(e) = {}

\* C9: executeStep performs one action per step: every call it makes
\* belongs to the first action, in the fixed order, that the step object
\* matches, and a step that matches no action makes no call.
C9_OneActionPerStep ==
    \A k \in CompletedCalls :
        LET e == stepLog[k]
            m == Matching(e.step)
        IN  IF m = {} THEN e.calls = <<>>
            ELSE LET first == CHOOSE f \in m : \A g \in m : f <= g IN
                 /\ \A c \in 1..Len(e.calls) : e.calls[c].arm = PriorityOrder[first]
                 /\ (~e.raised => Len(e.calls) >= 1)

\* C9 witness: a step object matching several actions completed without
\* a raising call, its calls being those of the first action only.
C9_Witness ==
    \E k \in CompletedCalls :
        /\ Cardinality(Matching(stepLog[k].step)) >= 3
        /\ ~stepLog[k].raised
        /\ stepLog[k].result.success
        /\ Len(stepLog[k].calls) >= 2

----------------------------------------------------------------------------
(* Properties of the runner's error handling *)

Acquired == page # "none"

\* C5: once the flow is loaded and the browser and page are acquired,
\* runTestFlow never rejects.
C5_NeverRejectsOnceAcquired == Acquired => pc # "rejected"

\* C6: a throwing recordTestRun neither changes the computed result nor
\* keeps it from being returned and rendered: once the result is computed,
\* it is returned as computed and the final report is printed.
C6_PersistenceFailureHarmless ==
    results.computed =>
        /\ Returned
        /\ outcome.value = results.value
        /\ out # <<>>
        /\ out[Len(out)].kind \in {"summary", "json"}

\* C7: whenever runTestFlow has settled after entering the step loop, both
\* the page and the browser of the run are closed.
C7_SessionReleased ==
    (Settled /\ Acquired) => (page = "closed" /\ browser \notin openBrowsers)

\* The flow cannot be loaded: no inline flow, and no path, or a path to a
\* file that is missing or does not parse.
LoadFails ==
    /\ ~Has(opts, "flow")
    /\ \/ ~Has(opts, "flowPath")
       \/ opts.flowPath = <<>>
       \/ disk.state \in {"missing", "garbage"}

\* C10: when flow loading fails, runTestFlow rejects before launchBrowser
\* is called: no browser or page is acquired, no step is executed, no
\* result is produced and no test run is recorded.
C10_LoadFailureIsFatal ==
    LoadFails =>
        /\ pc \in {"start", "rejected"}
        /\ pc = "rejected" => outcome.kind = "throw"
        /\ launched = 0 /\ browser = 0 /\ page = "none" /\ openBrowsers = {}
        /\ stepLog = <<>>
        /\ ~results.computed
        /\ db = <<>>

\* C10 witness: the run was given the path of a file that is not JSON and
\* has rejected.
C10_Witness ==
    /\ pc = "rejected"
    /\ Has(opts, "flowPath") /\ ~Has(opts, "flow")
    /\ disk.state = "garbage"
    /\ outcome.exc.name = "SyntaxError"

\* C11: when launchBrowser or newPage throws, so that no page is ever
\* acquired, the error is surfaced to the caller: executeStep is never
\* called, no result is computed or returned and no test run is recorded.
C11_AcquisitionFailureIsFatal ==
    page = "none" =>
        /\ stepLog = <<>>
        /\ ~results.computed
        /\ db = <<>>
        /\ pc # "returned"
        /\ (pc = "rejected" /\ ~LoadFails) =>
               outcome = [kind |-> "throw", exc |-> AcquireError]

\* C11 witness: the browser was launched for a flow with steps, newPage
\* threw and the run has rejected with that error.
C11_Witness ==
    /\ pc = "rejected"
    /\ outcome.exc = AcquireError
    /\ launched = 1
    /\ page = "none"
    /\ Len(flow.steps) > 0

\* C12: recordTestRun is called exactly once for each completed run, a
\* run stopped early by stopOnFailure included, and never more than once;
\* the passed, failed, total, duration and base URL of the record are those
\* of the returned result.
C12_RecordedOnce ==
    /\ Len(db) <= 1
    /\ Returned =>
          /\ Len(db) = 1
          /\ db[1].passed = outcome.value.passed
          /\ db[1].failed = outcome.value.failed
          /\ db[1].total = outcome.value.total
          /\ db[1].duration_ms = outcome.value.duration
          /\ db[1].base_url = outcome.value.baseUrl

\* C12 witness: a run with a base URL was stopped by its first failure
\* before its last step, took some time, and was recorded.
C12_Witness ==
    /\ Returned
    /\ opts.stopOnFailure
    /\ Len(outcome.value.steps) < outcome.value.total
    /\ outcome.value.failed = 1
    /\ outcome.value.duration > 0
    /\ outcome.value.baseUrl # <<>>
    /\ Len(db) = 1

\* C13 as stated: the duration of a returned result runs from the moment
\* before launchBrowser is called to the moment after the page and the
\* browser are closed.
C13_CoversAcquisition ==
    Returned => outcome.value.duration = clockAt.released - clockAt.launchCalled

\* C13: the duration of a returned result runs from the moment after
\* launchBrowser and newPage have resolved to the moment after the page
\* and the browser are closed: it covers the steps and the release of the
\* session, and not its acquisition.
C13_CoversStepsAndRelease ==
    Returned => outcome.value.duration = clockAt.released - clockAt.acquired

\* C13 witness: a run has returned whose acquisition and whose release
\* both took time while its steps took none.
C13_Witness ==
    /\ Returned
    /\ clockAt.acquired > clockAt.launchCalled
    /\ \A k \in 1..Len(outcome.value.steps) : outcome.value.steps[k].duration = 0
    /\ outcome.value.duration > 0

\* The sum of the durations of a list of StepResults.
RECURSIVE SumDurations(_)
SumDurations(rs) ==
    IF rs = <<>> THEN 0 ELSE rs[1].duration + SumDurations(Tail(rs))

\* C14: under a clock that never goes back, the sum of the durations of
\* the steps of a returned result does not exceed the duration of the
\* result by more than the time spent acquiring and releasing the browser
\* session; indeed it does not exceed the duration of the result at all.
C14_StepDurationsWithinRun ==
    Returned => SumDurations(outcome.value.steps) <= outcome.value.duration

\* C14 witness: a run of two steps that took one tick each has returned,
\* and its duration is the sum of the two.
C14_Witness ==
    /\ Returned
    /\ Len(outcome.value.steps) = 2
    /\ \A k \in 1..2 : outcome.value.steps[k].duration = 1
    /\ outcome.value.duration = 2

\* The run uses the base URL b: every navigation issued so far went to b
\* followed by the step's target, and the returned result and the
\* recorded row carry b.
UsesBaseUrl(b) ==
    /\ \A k \in 1..Len(stepLog) :
          (stepLog[k].returned /\ stepLog[k].calls # <<>>) =>
              stepLog[k].calls[1].url = b \o stepLog[k].step.goto
    /\ Returned => outcome.value.baseUrl = b /\ db[1].base_url = b

\* C15 as stated: the base URL of a run is the override whenever the
\* options give one, otherwise the flow's own baseUrl when it has one,
\* otherwise the empty string.
C15_OverrideWhenGiven ==
    Has(clockAt, "launchCalled") =>
        UsesBaseUrl(IF Has(opts, "baseUrl") THEN opts.baseUrl
                    ELSE IF Has(flow, "baseUrl") THEN flow.baseUrl
                    ELSE <<>>)

\* C15: the base URL used for every step, for the result and for the
\* persisted record is the override whenever the options give one that is
\* not the empty string, otherwise the flow's own baseUrl when it has one,
\* otherwise the empty string.
C15_OverrideWhenNotEmpty ==
    Has(clockAt, "launchCalled") =>
        UsesBaseUrl(IF Has(opts, "baseUrl") /\ opts.baseUrl # <<>> THEN opts.baseUrl
                    ELSE IF Has(flow, "baseUrl") THEN flow.baseUrl
                    ELSE <<>>)

\* C15 witness: a run given the empty string as override, of a flow with
\* a baseUrl of its own, has navigated and returned.
C15_Witness ==
    /\ Returned
    /\ Has(opts, "baseUrl") /\ opts.baseUrl = <<>>
    /\ Has(flow, "baseUrl") /\ flow.baseUrl = FlowBaseUrl
    /\ Len(stepLog) > 0
    /\ stepLog[1].calls[1].url = FlowBaseUrl \o stepLog[1].step.goto
    /\ outcome.value.baseUrl = FlowBaseUrl

----------------------------------------------------------------------------
(* Properties of the arguments the step executor gives to the driver *)

\* The log entry of the one call of executeStep, once it has completed.
Executed == pc = "executed"
TheCall == stepLog[1]

\* Two characters that are the same letter in either case, or equal.
SameLetter(c, d) ==
    \/ c = d
    \/ \E u \in 1..Len(UpperChars) : {c, d} = {UpperChars[u], LowerChars[u]}

\* sub occurs in text when the case of letters is ignored.
ContainsIgnoringCase(text, sub) ==
    \E k \in 0..(Len(text) - Len(sub)) :
        \A j \in 1..Len(sub) : SameLetter(text[k + j], sub[j])

\* The element of a verify step was found and its text was read.
ElementFound ==
    /\ Executed
    /\ Arm(TheCall.step) = "verify"
    /\ ~TheCall.raised

\* C16: for a verify step whose element is found, success is true exactly
\* when the text contains the expected substring, letter case ignored; on
\* a mismatch the error contains the expected substring and the first 100
\* characters of the actual text, and no more of it than those.
C16_VerifyIgnoresCase ==
    ElementFound =>
        LET text == TheCall.text
            expected == TheCall.step.contains
            result == TheCall.result
        IN  /\ result.success <=> ContainsIgnoringCase(text, expected)
            /\ ~result.success =>
                  /\ Has(result, "error")
                  /\ Includes(result.error, expected)
                  /\ Includes(result.error, SubSeq(text, 1, Min(100, Len(text))))
                  /\ Len(text) > 100 =>
                        ~Includes(result.error, SubSeq(text, 1, 101))

\* C16 witness: a verify step has read a text of more than 100 characters
\* that lacks the expected substring, and has failed.
C16_Witness ==
    /\ ElementFound
    /\ Len(TheCall.text) > 100
    /\ ~TheCall.result.success
    /\ Has(TheCall.result, "error")

IsLetter(c) ==
    \E u \in 1..Len(UpperChars) : c \in {UpperChars[u], LowerChars[u]}

\* The target begins with a URL scheme: letters followed by a colon.
HasScheme(target) ==
    \E k \in 2..Len(target) :
        /\ target[k] = ":"
        /\ \A j \in 1..(k - 1) : IsLetter(target[j])

\* C17: for a goto step the URL passed to the driver is the target itself
\* when the target already has a scheme, and the base URL followed by the
\* target in every other case.
C17_SchemeDecidesUrl ==
    (Executed /\ Arm(TheCall.step) = "goto") =>
        LET target == TheCall.step.goto IN
        TheCall.calls[1].url =
            IF HasScheme(target) THEN target ELSE baseUrl \o target

\* The waits an arm issues to the driver, and the default timeout of each
\* kind of step.
IsWait(call) == call.call \in {"page.goto", "page.waitForSelector"}
DefaultTimeout(arm) == IF arm \in {"goto", "waitFor"} THEN 30000 ELSE 10000

\* C18: every wait issued to the driver by a goto, click, type, waitFor,
\* verify, scroll, hover or select step is given the step's timeout when
\* the step specifies one, and the default (30000 for goto and waitFor,
\* 10000 for the others) when it specifies none.
C18_StepTimeoutGovernsWaits ==
    Executed =>
        LET step == TheCall.step IN
        \A k \in 1..Len(TheCall.calls) :
            LET call == TheCall.calls[k] IN
            IsWait(call) =>
                /\ Has(call, "timeout")
                /\ call.timeout = IF Has(step, "timeout") THEN step.timeout
                                  ELSE DefaultTimeout(Arm(step))

\* The steps that address an element; the field that holds the selector
\* bears the name of the arm.
SelectorArms == {"click", "type", "waitFor", "verify", "scroll", "hover", "select"}

\* The locator that selects the elements whose text contains rest.
TextContains(rest) ==
    <<"x", "p", "a", "t", "h", "=", "/", "/", "*", "[", "c", "o", "n", "t", "a",
      "i", "n", "s", "(", "t", "e", "x", "t", "(", ")", ",", Quote>>
    \o rest \o <<Quote, ")", "]">>

\* C19: resolveSelector does not throw and is a function of its argument:
\* a selector that begins with 'text=' becomes the text-contains locator
\* built from the rest of the string, every other selector, one that
\* begins with 'xpath=' included, is passed unchanged, every call of a
\* step is given the same locator, and resolving a locator that is already
\* resolved returns it unchanged.
C19_ResolveSelector ==
    (Executed /\ Arm(TheCall.step) \in SelectorArms) =>
        LET raw == TheCall.step[Arm(TheCall.step)]
            expected ==
                IF Len(raw) >= 5 /\ SubSeq(raw, 1, 5) = <<"t", "e", "x", "t", "=">>
                THEN TextContains(SubSeq(raw, 6, Len(raw)))
                ELSE raw
        IN  /\ ~TheCall.thrown
            /\ (~TheCall.raised /\ Arm(TheCall.step) # "verify") =>
                    TheCall.result.success
            /\ \A k \in 1..Len(TheCall.calls) :
                  LET call == TheCall.calls[k] IN
                  Has(call, "selector") =>
                      /\ call.selector = expected
                      /\ resolveSelector(call.selector) = call.selector

\* C19 witness: a step whose selector is 'text=Go' has made all its calls
\* on the locator that contains "Go" between quotes.
C19_Witness ==
    /\ Executed
    /\ Arm(TheCall.step) = "click"
    /\ TheCall.step.click = TextSelector
    /\ ~TheCall.raised
    /\ Includes(TheCall.calls[1].selector, <<Quote, "G", "o", Quote>>)
    /\ TheCall.calls[3].selector = TheCall.calls[1].selector

----------------------------------------------------------------------------
(* Properties of the JSON report *)

\* The report printed by a run that has returned with jsonOutput set.
Reported == Returned /\ JsonOutput(opts)
TheReport == out[Len(out)].report

\* C20: in the report createJsonReport builds from a result,
\* summary.success is true exactly when failed is 0, so that a result
\* with a failed outcome has failed > 0 and success false; and steps has
\* one entry per outcome, in order, with index 1, 2, ..., each with the
\* success, duration, error and screenshot path of its outcome.
C20_JsonReport ==
    Reported =>
        LET res == outcome.value IN
        /\ TheReport.summary.success <=> (TheReport.summary.failed = 0)
        /\ FailedAt(res.steps) # {} =>
              TheReport.summary.failed > 0 /\ ~TheReport.summary.success
        /\ Len(TheReport.steps) = Len(res.steps)
        /\ \A k \in 1..Len(res.steps) :
              LET entry == TheReport.steps[k]
                  s == res.steps[k]
              IN  /\ entry.index = k
                  /\ entry.success = s.success
                  /\ entry.duration = s.duration
                  /\ Has(entry, "error") <=> Has(s, "error")
                  /\ Has(s, "error") => entry.error = s.error
                  /\ Has(entry, "screenshot") <=> Has(s, "screenshotPath")
                  /\ Has(s, "screenshotPath") => entry.screenshot = s.screenshotPath

\* C20 witness: the report of a run whose first step saved a screenshot
\* and whose second step failed with an error.
C20_Witness ==
    /\ Reported
    /\ Len(TheReport.steps) = 2
    /\ Has(TheReport.steps[1], "screenshot") /\ TheReport.steps[1].success
    /\ Has(TheReport.steps[2], "error") /\ ~TheReport.steps[2].success
    /\ TheReport.summary.failed = 1
    /\ ~TheReport.summary.success

----------------------------------------------------------------------------
(* Properties of the step loop *)

\* The calls of executeStep that have not returned yet.
InFlight == {k \in 1..Len(stepLog) : ~stepLog[k].returned}

\* C21: within one run at most one step is in flight at any time: the
\* call of executeStep that has not returned is the latest one, every
\* earlier call has returned and its outcome is recorded, and once the
\* loop has been left, by its end or by the stopOnFailure check, no call
\* is in flight.
C21_OneStepInFlight ==
    /\ Cardinality(InFlight) <= 1
    /\ \A k \in 1..Len(stepLog) : stepLog[k].index = k
    /\ \A k \in InFlight :
          /\ k = Len(stepLog)
          /\ pc = "inStep"
          /\ Len(stepResults) = k - 1
    /\ pc # "inStep" => InFlight = {}

\* C21 witness: the second step is in flight after the first has returned
\* and its outcome was recorded.
C21_Witness ==
    /\ pc = "inStep"
    /\ Len(stepLog) = 2
    /\ stepLog[1].returned /\ ~stepLog[2].returned
    /\ Len(stepResults) = 1
    /\ stepResults[1] = stepLog[1].result

----------------------------------------------------------------------------
(* Properties of the browser session *)

\* C22: when two invocations of runTestFlow overlap, neither closes the
\* browser the other is using: the browser of an invocation stays open
\* for as long as that invocation is in its step loop.
C22_BrowserStaysOpen ==
    /\ pc = "inStep" => browser \in openBrowsers
    /\ other.pc = "inLoop" => other.browser \in openBrowsers

----------------------------------------------------------------------------
(* Properties of the callers of runTestFlow *)

\* C23: the `test run` command exits with code 0 exactly when runTestFlow
\* returned a result with failed = 0; it exits with another code when a
\* step failed, when runTestFlow threw and when it never ran.
C23_ExitCodeTellsOutcome ==
    IF pc = "exited"
    THEN /\ exitCode \in {0, 1}
         /\ exitCode = 0 <=> (outcome.kind = "return" /\ outcome.value.failed = 0)
    ELSE exitCode = -1

\* C23 witness: the command has exited with code 0 after a run of two
\* steps that both passed.
C23_Witness ==
    /\ pc = "exited"
    /\ exitCode = 0
    /\ outcome.value.passed = 2
    /\ outcome.value.total = 2

\* The positions of the successful outcomes in a list of StepResults.
PassedAt(rs) == {k \in 1..Len(rs) : rs[k].success}

\* C24: at every point of the step loop and in the returned result,
\* passed is the number of recorded outcomes that succeeded, failed the
\* number of those that did not, and passed + failed is the number of
\* recorded outcomes, which is at most total.
C24_CountersMatchOutcomes ==
    /\ passed = Cardinality(PassedAt(stepResults))
    /\ failed = Cardinality(FailedAt(stepResults))
    /\ passed + failed = Len(stepResults)
    /\ Len(stepResults) <= Len(flow.steps)
    /\ Returned =>
          LET res == outcome.value IN
          /\ res.passed = Cardinality(PassedAt(res.steps))
          /\ res.failed = Cardinality(FailedAt(res.steps))
          /\ res.passed + res.failed = Len(res.steps)
          /\ Len(res.steps) <= res.total

\* C24 witness: a run of two steps stopped by the failure of its first
\* step has returned with one outcome, counted as failed.
C24_Witness ==
    /\ Returned
    /\ outcome.value.total = 2
    /\ Len(outcome.value.steps) = 1
    /\ outcome.value.passed = 0
    /\ outcome.value.failed = 1

\* The line reportStep printed for step k tells a failure.
ReportedAsFailed(k) ==
    \E j \in 1..Len(out) :
        out[j].kind = "step" /\ out[j].index = k /\ ~out[j].success

C26_AcquiresOpenBrowser ==
    pc = "openingPage" => browser \in openBrowsers

----------------------------------------------------------------------------
(* Properties of the outcome of a step *)

\* How the name of each action of executeStep begins.
ActionLabel ==
    [goto |-> "goto ", click |-> "click ", type |-> "type ",
     waitFor |-> "waitFor ", screenshot |-> "screenshot ", verify |-> "verify ",
     wait |-> "wait ", scroll |-> "scroll ", hover |-> "hover ",
     select |-> "select ", press |-> "press ",
     evaluate |-> "evaluate (custom JS)", unknown |-> "unknown action"]

\* C27: for every step object the action getActionName names is the
\* action executeStep performs for it, and the name is 'unknown action'
\* exactly for the steps executeStep classifies as unknown.
C27_NameIsPerformedAction ==
    Executed =>
        LET name == getActionName(TheCall.step)
            arm == Arm(TheCall.step)
        IN  /\ name[1] = ActionLabel[arm]
            /\ name = <<"unknown action">> <=> arm = "unknown"

\* C28: every outcome executeStep returns has an error exactly when its
\* success is false: a caught exception, a verify mismatch and an unknown
\* step each set the error, and no successful outcome has one;
\* screenshotPath is set only on a successful screenshot step.
C28_ErrorIffFailed ==
    Executed =>
        LET result == TheCall.result IN
        /\ ~TheCall.thrown
        /\ Has(result, "error") <=> ~result.success
        /\ TheCall.raised => Has(result, "error")
        /\ Arm(TheCall.step) = "unknown" => Has(result, "error")
        /\ Has(result, "screenshotPath") =>
              Arm(TheCall.step) = "screenshot" /\ result.success

\* C28 witness: a screenshot step whose page.screenshot call raised has
\* returned a failed outcome with an error and without a screenshotPath.
C28_Witness ==
    /\ Executed
    /\ Arm(TheCall.step) = "screenshot"
    /\ TheCall.raised
    /\ ~TheCall.result.success
    /\ Has(TheCall.result, "error")
    /\ ~Has(TheCall.result, "screenshotPath")

\* C29: once runTestFlow has returned or rejected, every browser it was
\* handed by launchBrowser is closed, also when newPage failed after the
\* launch and when page.close() threw.
C29_NoBrowserLeaked ==
    (Settled /\ browser # 0) => browser \notin openBrowsers

-----------------------------------------------------------------------------
\* Properties of runMultipleFlows.

RECURSIVE SumPassed(_)
SumPassed(rs) ==
    IF rs = <<>> THEN 0 ELSE rs[1].passed + SumPassed(Tail(rs))

RECURSIVE SumFailed(_)
SumFailed(rs) ==
    IF rs = <<>> THEN 0 ELSE rs[1].failed + SumFailed(Tail(rs))

\* The positions of the flows whose run returned a result.
ReturnedFlows == {j \in 1..Len(multi.settled) : multi.settled[j] = "return"}

\* The last flow accounted for returned a result with failed steps, under
\* stopOnFailure.
StoppedByFailure ==
    /\ StopOnFailure(multi.options)
    /\ multi.settled # <<>>
    /\ multi.settled[Len(multi.settled)] = "return"
    /\ multi.results[Len(multi.results)].failed > 0

\* C30: runMultipleFlows runs the flows in the order given, one at a time:
\* flow k is started after flows 1..k-1 have settled and been accounted
\* for. The results are those of the runs that returned, and the totals
\* are the sums of their passed and failed counts. With stopOnFailure no
\* flow is started after the first result with failed > 0. A run that
\* throws adds no result, and the loop goes on to the remaining flows.
C30_FlowsInOrderTotalsAreSums ==
    multi.pc # "none" =>
        /\ multi.k \in 0..Len(multi.flowPaths)
        /\ multi.pc = "running" =>
              /\ Len(multi.settled) = (IF multi.k = 0 THEN 0 ELSE multi.k - 1)
              /\ multi.k > 0 => /\ opts.flowPath = multi.flowPaths[multi.k]
                                /\ disk = multi.files[multi.k]
              /\ ~StoppedByFailure
        /\ multi.pc = "done" =>
              /\ Len(multi.settled) = multi.k
              /\ multi.k = Len(multi.flowPaths) \/ StoppedByFailure
        /\ Len(multi.results) = Cardinality(ReturnedFlows)
        /\ multi.totalPassed = SumPassed(multi.results)
        /\ multi.totalFailed = SumFailed(multi.results)
        /\ StopOnFailure(multi.options) =>
              \A j \in 1..Len(multi.results) :
                  multi.results[j].failed > 0 => j = Len(multi.results)

\* C30 witness: three flows without stopOnFailure; the first run threw, the
\* second returned a result with a failed step, the third was still run,
\* and the totals count the one result.
C30_Witness ==
    /\ multi.pc = "done"
    /\ ~StopOnFailure(multi.options)
    /\ Len(multi.settled) = 3
    /\ multi.settled[1] = "throw"
    /\ multi.settled[2] = "return"
    /\ Len(multi.results) >= 1
    /\ multi.results[1].failed = 1
    /\ multi.totalFailed >= 1

====
